---- MODULE Spec2Model ----
(***************************************************************************)
(* A model of module_xml.py: the regex grammar (RegexCollector), the lexer *)
(* and tree builder (XmlParser), the node tree (XmlNode, XmlRoot) and the  *)
(* serializer (XmlSerializer).                                             *)
(*                                                                         *)
(* Text is a sequence of one-character strings, so that replace, findall,  *)
(* startswith and the regular expressions are computed character by        *)
(* character as Python computes them.  Nodes live in a heap (a sequence of *)
(* records addressed by index), because the code shares nodes by reference *)
(* (the open-node stack and the tree point at the same objects).  Index 0  *)
(* stands for None.                                                        *)
(***************************************************************************)
EXTENDS Integers, Sequences, FiniteSets, TLC

VARIABLES
    \* --- escaping round trip (XmlSerializer._encode_string, XmlNode._decode_string)
    esc_pc, esc_in, esc_enc, esc_dec,
    \* --- XmlParser / XmlRoot / XmlSerializer
    pc, xml_string, tokens, idx, tokens_processed,
    heap, xml_root, current_node, parent_nodes, err, xml_out,
    \* --- XmlNode query / mutation API
    op, strict, tag, tag0, newnode, result, raised

escVars   == <<esc_pc, esc_in, esc_enc, esc_dec>>
parseVars == <<pc, xml_string, tokens, idx, tokens_processed,
               xml_root, current_node, parent_nodes, err, xml_out>>
apiVars   == <<op, strict, tag, tag0, newnode, result, raised>>
vars      == <<escVars, parseVars, heap, apiVars>>

(***************************************************************************)
(* Bounds of the model.                                                    *)
(***************************************************************************)
MaxEscLen == 3

(***************************************************************************)
(* Python string primitives.                                               *)
(***************************************************************************)
None == 0                 \* None where a node is expected
NoneStr == <<"None">>     \* None where a string is expected (no text is this)

RECURSIVE Join(_)
Join(ss) == IF ss = <<>> THEN <<>> ELSE Head(ss) \o Join(Tail(ss))

StartsWith(s, p) == Len(p) <= Len(s) /\ SubSeq(s, 1, Len(p)) = p

EndsWith(s, p) ==
    Len(p) <= Len(s) /\ SubSeq(s, Len(s) - Len(p) + 1, Len(s)) = p

Drop(s, n) == SubSeq(s, n + 1, Len(s))

\* str.replace(old, new): every non-overlapping occurrence, left to right.
RECURSIVE Replace(_, _, _)
Replace(s, old, new) ==
    IF s = <<>> THEN <<>>
    ELSE IF StartsWith(s, old) THEN new \o Replace(Drop(s, Len(old)), old, new)
    ELSE <<Head(s)>> \o Replace(Tail(s), old, new)

WhiteSpace == {" ", "\n", "\t", "\r"}

\* str.isspace(): at least one character and all of them whitespace.
IsSpace(s) == s # <<>> /\ \A i \in 1..Len(s) : s[i] \in WhiteSpace

StringsUpTo(A, n) == UNION {[1..k -> A] : k \in 0..n}

(***************************************************************************)
(* XML_REPLACEMENT_CHARS, in its declared (dict insertion) order.          *)
(***************************************************************************)
XML_REPLACEMENT_CHARS ==
    << [escaped |-> <<"&","q","u","o","t",";">>, original |-> <<"\"">>],
       [escaped |-> <<"&","a","p","o","s",";">>, original |-> <<"'">>],
       [escaped |-> <<"&","l","t",";">>,         original |-> <<"<">>],
       [escaped |-> <<"&","g","t",";">>,         original |-> <<">">>],
       [escaped |-> <<"&","a","m","p",";">>,     original |-> <<"&">>] >>

ReservedChars == {"\"", "'", "<", ">", "&"}

\* XmlSerializer._encode_string: for each table entry in order,
\* string = string.replace(original, escaped).
RECURSIVE EncodeFrom(_, _)
EncodeFrom(s, k) ==
    IF k > Len(XML_REPLACEMENT_CHARS) THEN s
    ELSE EncodeFrom(Replace(s, XML_REPLACEMENT_CHARS[k].original,
                               XML_REPLACEMENT_CHARS[k].escaped), k + 1)

encode_string(value) == EncodeFrom(value, 1)

\* XmlNode._decode_string: for a non-empty string, for each table entry in
\* order, value = value.replace(escaped, original); None and "" pass through.
RECURSIVE DecodeFrom(_, _)
DecodeFrom(s, k) ==
    IF k > Len(XML_REPLACEMENT_CHARS) THEN s
    ELSE DecodeFrom(Replace(s, XML_REPLACEMENT_CHARS[k].escaped,
                               XML_REPLACEMENT_CHARS[k].original), k + 1)

decode_string(value) ==
    IF value = NoneStr \/ value = <<>> THEN value ELSE DecodeFrom(value, 1)

(***************************************************************************)
(* Regular expressions, matched as Python's re matches them: backtracking, *)
(* alternatives tried left to right, * + ? greedy, *? lazy.  A pattern is  *)
(* a record tagged by t; Ends(r, s, i) is the sequence of positions at     *)
(* which a match of r starting after the first i characters of s can end,  *)
(* in the order the backtracking matcher tries them: its head is the match *)
(* re finds at i.                                                          *)
(***************************************************************************)
In(cs)    == [t |-> "in",   s |-> cs]         \* [...]   one of cs
NotIn(cs) == [t |-> "not",  s |-> cs]         \* [^...]  any character not in cs
Lit(w)    == [t |-> "lit",  w |-> w]          \* literal text
Cat(rs)   == [t |-> "cat",  a |-> rs]         \* r1 r2 ... rn
Alt(rs)   == [t |-> "alt",  a |-> rs]         \* r1|r2|...|rn
Star(r)   == [t |-> "star", r |-> r]          \* (?:r)*
Plus(r)   == [t |-> "plus", r |-> r]          \* (?:r)+
Opt(r)    == [t |-> "opt",  r |-> r]          \* (?:r)?
Lazy(r)   == [t |-> "lazy", r |-> r]          \* (?:r)*?

\* q without the positions already in p, and without repeats: a position
\* the matcher has tried before is not tried again with a different result.
RECURSIVE Fresh(_, _)
Fresh(p, q) ==
    IF q = <<>> THEN <<>>
    ELSE IF \E k \in 1..Len(p) : p[k] = Head(q) THEN Fresh(p, Tail(q))
    ELSE <<Head(q)>> \o Fresh(p \o <<Head(q)>>, Tail(q))

\* Whether the character after position j - 1 of s is one r matches, for a
\* one-character pattern r ([...] or [^...]).
Takes(r, s, j) == IF r.t = "in" THEN s[j] \in r.s ELSE s[j] \notin r.s

\* The end of the longest run of characters matching the one-character
\* pattern r that starts after the first i characters of s.
RunEnd(r, s, i) ==
    LET stop == {j \in (i + 1)..Len(s) : ~Takes(r, s, j)}
    IN  IF stop = {} THEN Len(s)
        ELSE (CHOOSE j \in stop : \A k \in stop : j <= k) - 1

Downto(hi, lo) == [k \in 1..(hi - lo + 1) |-> hi + 1 - k]
Upto(lo, hi)   == [k \in 1..(hi - lo + 1) |-> lo + k - 1]

RECURSIVE Ends(_, _, _)
RECURSIVE EndsCat(_, _, _, _)
RECURSIVE EndsAlt(_, _, _, _)
RECURSIVE EndsEach(_, _, _, _)

\* A repetition of a one-character pattern ends anywhere in the run of such
\* characters: longest first when greedy, shortest first when lazy.  (This
\* is what the general clauses below compute, without their recursion.)
Ends(r, s, i) ==
    CASE r.t = "in"   -> IF i < Len(s) /\ s[i + 1] \in r.s THEN <<i + 1>> ELSE <<>>
      [] r.t = "not"  -> IF i < Len(s) /\ s[i + 1] \notin r.s THEN <<i + 1>> ELSE <<>>
      [] r.t = "lit"  -> IF i + Len(r.w) <= Len(s)
                            /\ SubSeq(s, i + 1, i + Len(r.w)) = r.w
                         THEN <<i + Len(r.w)>> ELSE <<>>
      [] r.t = "cat"  -> EndsCat(r.a, 1, s, <<i>>)
      [] r.t = "alt"  -> EndsAlt(r.a, 1, s, i)
      [] r.t = "opt"  -> Fresh(<<>>, Ends(r.r, s, i) \o <<i>>)
      \* greedy: one more r first (it must consume), then stop here
      [] r.t = "star" ->
            IF r.r.t \in {"in", "not"} THEN Downto(RunEnd(r.r, s, i), i)
            ELSE LET one == SelectSeq(Ends(r.r, s, i), LAMBDA j : j > i)
                 IN  Fresh(<<>>, EndsEach(r, s, one, 1) \o <<i>>)
      [] r.t = "plus" ->
            IF r.r.t \in {"in", "not"} THEN Downto(RunEnd(r.r, s, i), i + 1)
            ELSE Fresh(<<>>, EndsEach(Star(r.r), s, Ends(r.r, s, i), 1))
      \* lazy: stop here first, then one more r
      [] r.t = "lazy" ->
            IF r.r.t \in {"in", "not"} THEN Upto(i, RunEnd(r.r, s, i))
            ELSE LET one == SelectSeq(Ends(r.r, s, i), LAMBDA j : j > i)
                 IN  Fresh(<<>>, <<i>> \o EndsEach(r, s, one, 1))

\* the ends of r from each start position in js, in order
EndsEach(r, s, js, k) ==
    IF r.t \in {"in", "not", "lit"}
    THEN \* r ends in at most one place: keep the starts where it matches
         LET ok == SelectSeq(js, LAMBDA j : Ends(r, s, j) # <<>>)
         IN  IF k > 1 THEN <<>>
             ELSE [n \in 1..Len(ok) |-> Head(Ends(r, s, ok[n]))]
    ELSE IF k > Len(js) THEN <<>>
    ELSE Ends(r, s, js[k]) \o EndsEach(r, s, js, k + 1)

\* the ends of a[k..] from each of the positions js
EndsCat(a, k, s, js) ==
    IF k > Len(a) THEN js
    ELSE EndsCat(a, k + 1, s, Fresh(<<>>, EndsEach(a[k], s, js, 1)))

EndsAlt(a, k, s, i) ==
    IF k > Len(a) THEN <<>>
    ELSE Fresh(<<>>, Ends(a[k], s, i) \o EndsAlt(a, k + 1, s, i))

\* re.match at position i: the end of the match, or -1.
MatchEnd(r, s, i) == LET e == Ends(r, s, i) IN IF e = <<>> THEN -1 ELSE Head(e)

\* regex.findall(string) for a pattern without groups that matches no empty
\* text: the matches, scanning left to right, each search resuming at the
\* end of the previous match.
RECURSIVE FindAllFrom(_, _, _)
FindAllFrom(r, s, i) ==
    IF i >= Len(s) THEN <<>>
    ELSE LET e == MatchEnd(r, s, i)
         IN  IF e <= i THEN FindAllFrom(r, s, i + 1)
             ELSE <<SubSeq(s, i + 1, e)>> \o FindAllFrom(r, s, e)

findall(s, r) == FindAllFrom(r, s, 0)


(***************************************************************************)
(* RegexCollector: the named fragments, each built from the ones before it *)
(* exactly as the %(name)s interpolation composes them.  A fragment whose  *)
(* text has a top-level | is only ever interpolated inside (?:...), so the *)
(* composition below has the precedence of the composed pattern text.      *)
(* The inputs of the model are ASCII, so the [^\x00-\x7F] alternative of   *)
(* NameStrt and NameChar matches none of their characters.                 *)
(***************************************************************************)
UpperCase ==
    {"A", "B", "C", "D", "E", "F", "G", "H", "I", "J", "K", "L", "M", "N",
     "O", "P", "Q", "R", "S", "T", "U", "V", "W", "X", "Y", "Z"}
LowerCase ==
    {"a", "b", "c", "d", "e", "f", "g", "h", "i", "j", "k", "l", "m", "n",
     "o", "p", "q", "r", "s", "t", "u", "v", "w", "x", "y", "z"}
Digits ==
    {"0", "1", "2", "3", "4", "5", "6", "7", "8", "9"}

S_chars == {" ", "\n", "\t", "\r"}

\* "(\S*?)=\"(.*?)\"": its two groups, and the literals between them
GetAttr_name  == Lazy(NotIn(WhiteSpace))
GetAttr_value == Lazy(NotIn({"\n"}))

\* a text run that also stops at >
TextSE_StopsAtGt == Plus(NotIn({"<", ">"}))

TextSE == Plus(NotIn({"<"}))
UntilHyphen == Cat(<<Star(NotIn({"-"})), Lit(<<"-">>)>>)
Until2Hyphens ==
    Cat(<<UntilHyphen, Star(Cat(<<NotIn({"-"}), UntilHyphen>>)), Lit(<<"-">>)>>)
CommentCE == Cat(<<Until2Hyphens, Opt(Lit(<<">">>))>>)
UntilRSBs ==
    Cat(<<Star(NotIn({"]"})), Lit(<<"]">>),
          Star(Cat(<<Plus(NotIn({"]"})), Lit(<<"]">>)>>)), Plus(Lit(<<"]">>))>>)
CDATA_CE ==
    Cat(<<UntilRSBs, Star(Cat(<<NotIn({"]", ">"}), UntilRSBs>>)), Lit(<<">">>)>>)
S == Plus(In(S_chars))
NameStrt == In(UpperCase \cup LowerCase \cup {"_", ":"})
NameChar == In(UpperCase \cup LowerCase \cup Digits \cup {"_", ":", ".", "-"})
Name == Cat(<<NameStrt, Star(NameChar)>>)
QuoteSE ==
    Alt(<<Cat(<<Lit(<<"\"">>), Star(NotIn({"\""})), Lit(<<"\"">>)>>),
          Cat(<<Lit(<<"'">>), Star(NotIn({"'"})), Lit(<<"'">>)>>)>>)
DT_IdentSE == Cat(<<S, Name, Star(Cat(<<S, Alt(<<Name, QuoteSE>>)>>))>>)
MarkupDeclCE ==
    Cat(<<Star(Alt(<<Plus(NotIn({"]", "\"", "'", ">", "<"})), QuoteSE>>)),
          Lit(<<">">>)>>)
S1 == In({"\n", "\r", "\t", " "})
UntilQMs == Cat(<<Star(NotIn({"?"})), Plus(Lit(<<"?">>))>>)
PI_Tail ==
    Alt(<<Lit(<<"?", ">">>),
          Cat(<<S1, UntilQMs, Star(Cat(<<NotIn({">", "?"}), UntilQMs>>)),
                Lit(<<">">>)>>)>>)
DT_ItemSE ==
    Alt(<<Cat(<<Lit(<<"<">>),
                Alt(<<Cat(<<Lit(<<"!">>),
                            Alt(<<Cat(<<Lit(<<"-", "-">>), Until2Hyphens,
                                        Lit(<<">">>)>>),
                                  Cat(<<NotIn({"-"}), MarkupDeclCE>>)>>)>>),
                      Cat(<<Lit(<<"?">>), Name, PI_Tail>>)>>)>>),
          Cat(<<Lit(<<"%">>), Name, Lit(<<";">>)>>),
          S>>)
DocTypeCE ==
    Cat(<<DT_IdentSE, Opt(S),
          Opt(Cat(<<Lit(<<"[">>), Star(DT_ItemSE), Lit(<<"]">>), Opt(S)>>)),
          Opt(Lit(<<">">>))>>)
DeclCE ==
    Alt(<<Cat(<<Lit(<<"-", "-">>), Opt(CommentCE)>>),
          Cat(<<Lit(<<"[","C","D","A","T","A","[">>), Opt(CDATA_CE)>>),
          Cat(<<Lit(<<"D","O","C","T","Y","P","E">>), Opt(DocTypeCE)>>)>>)
PI_CE == Cat(<<Name, Opt(PI_Tail)>>)
EndTagCE == Cat(<<Name, Opt(S), Opt(Lit(<<">">>))>>)
AttValSE ==
    Alt(<<Cat(<<Lit(<<"\"">>), Star(NotIn({"<", "\""})), Lit(<<"\"">>)>>),
          Cat(<<Lit(<<"'">>), Star(NotIn({"<", "'"})), Lit(<<"'">>)>>)>>)
ElemTagCE ==
    Cat(<<Name,
          Star(Cat(<<S, Name, Opt(S), Lit(<<"=">>), Opt(S), AttValSE>>)),
          Opt(S), Opt(Lit(<<"/">>)), Opt(Lit(<<">">>))>>)
MarkupSPE ==
    Cat(<<Lit(<<"<">>),
          Alt(<<Cat(<<Lit(<<"!">>), Opt(DeclCE)>>),
                Cat(<<Lit(<<"?">>), Opt(PI_CE)>>),
                Cat(<<Lit(<<"/">>), Opt(EndTagCE)>>),
                Opt(ElemTagCE)>>)>>)
XML_SPE == Alt(<<TextSE, MarkupSPE>>)


(***************************************************************************)
(* XmlParser: the patterns it compiles, and its helpers.                   *)
(***************************************************************************)
full_regex == XML_SPE
tag_regex == Name

\* attr_regex.findall(string): the (name, value) group pairs of the matches
\* of (\S*?)="(.*?)".  At a start position i the lazy \S*? is extended one
\* character at a time until =" follows and the lazy .*? can reach a ".
AttrNameEnds(s, i) ==
    SelectSeq(Ends(GetAttr_name, s, i),
              LAMBDA j : /\ Ends(Lit(<<"=", "\"">>), s, j) # <<>>
                         /\ \E k \in (j + 2)..RunEnd(GetAttr_value.r, s, j + 2) :
                               Ends(Lit(<<"\"">>), s, k) # <<>>)

AttrValueEnds(s, j) ==
    SelectSeq(Ends(GetAttr_value, s, j + 2),
              LAMBDA k : Ends(Lit(<<"\"">>), s, k) # <<>>)

\* the match that starts at i, its name group ending at j and its value
\* group at k
AttrMatch(s, i, j, k) ==
    [key |-> SubSeq(s, i + 1, j), value |-> SubSeq(s, j + 3, k), stop |-> k + 1]

AttrMatchAt(s, i, js) ==
    IF js = <<>> THEN [key |-> <<>>, value |-> <<>>, stop |-> -1]
    ELSE AttrMatch(s, i, Head(js), Head(AttrValueEnds(s, Head(js))))

RECURSIVE FindAllAttrFrom(_, _)
RECURSIVE FindAllAttrNext(_, _, _)

FindAllAttrFrom(s, i) ==
    IF i >= Len(s) THEN <<>>
    ELSE FindAllAttrNext(s, i, AttrMatchAt(s, i, AttrNameEnds(s, i)))

FindAllAttrNext(s, i, m) ==
    IF m.stop < 0 THEN FindAllAttrFrom(s, i + 1)
    ELSE <<[key |-> m.key, value |-> m.value]>> \o FindAllAttrFrom(s, m.stop)

\* A dict, in insertion order: d[key] = value.
DictHas(d, key) == \E n \in 1..Len(d) : d[n].key = key

DictGet(d, key) == d[CHOOSE n \in 1..Len(d) : d[n].key = key].value

DictSet(d, key, value) ==
    IF DictHas(d, key)
    THEN [n \in 1..Len(d) |->
             IF d[n].key = key THEN [key |-> key, value |-> value] ELSE d[n]]
    ELSE Append(d, [key |-> key, value |-> value])

RECURSIVE DictOf(_, _)
DictOf(pairs, n) ==
    IF n = 0 THEN <<>>
    ELSE DictSet(DictOf(pairs, n - 1), pairs[n].key, pairs[n].value)

DictOfPairs(pairs) == DictOf(pairs, Len(pairs))

\* XmlParser._get_attributes
get_attributes_of(string) == DictOfPairs(FindAllAttrFrom(string, 0))

\* str.splitlines(), for the line breaks \n, \r and \r\n.
RECURSIVE SplitLinesFrom(_, _)
SplitLinesFrom(s, line) ==
    IF s = <<>> THEN (IF line = <<>> THEN <<>> ELSE <<line>>)
    ELSE IF StartsWith(s, <<"\r", "\n">>)
         THEN <<line>> \o SplitLinesFrom(Drop(s, 2), <<>>)
    ELSE IF Head(s) \in {"\n", "\r"}
         THEN <<line>> \o SplitLinesFrom(Tail(s), <<>>)
    ELSE SplitLinesFrom(Tail(s), Append(line, Head(s)))

splitlines(s) == SplitLinesFrom(s, <<>>)

\* XmlParser._get_position: the pair it returns, first and second component.
PositionOf(lines) ==
    IF lines = <<>> THEN <<0, 0>> ELSE <<Len(lines), Len(lines[Len(lines)])>>

get_position(processed) == PositionOf(splitlines(Join(processed)))

\* "column, line = self._get_position()", then the message's
\* "(Column {}, Line {})".format(column, line).
RaiseAt(b, kind, pos) ==
    [b EXCEPT !.err = [kind |-> kind, column |-> pos[1], line |-> pos[2]]]

Raise(b, kind) == RaiseAt(b, kind, get_position(b.tokens_processed))

NoError == [kind |-> "", column |-> 0, line |-> 0]

\* XmlNode.__init__(tag): attributes {}, value None (decoded), nodes [].
NewNode(t) == [tag |-> t, attributes |-> <<>>, value |-> decode_string(NoneStr),
               nodes |-> <<>>]

\* XmlRoot.__init__(version, encoding="utf-8", standalone=None, rootnode=None)
Utf8 == <<"u", "t", "f", "-", "8">>
XmlRoot(version) ==
    [version |-> IF version # NoneStr /\ version # <<>> THEN version
                 ELSE <<"1", ".", "0">>,
     encoding |-> Utf8, standalone |-> NoneStr, rootnode |-> None]

(***************************************************************************)
(* The builder.  b is the parser's state: heap, xml_root, current_node,    *)
(* parent_nodes, tokens_processed, err.  A handler that raises leaves b    *)
(* as it was at the raise and records the exception in err.                *)
(***************************************************************************)
Top(stack) == stack[Len(stack)]
AllButLast(stack) == SubSeq(stack, 1, Len(stack) - 1)

KeyVersion == <<"v","e","r","s","i","o","n">>
KeyEncoding == <<"e","n","c","o","d","i","n","g">>
KeyStandalone == <<"s","t","a","n","d","a","l","o","n","e">>

\* "if key in attributes.keys(): self.xml_root.<field> = attributes[key]"
SetIfPresent(root, attributes, key, field) ==
    IF DictHas(attributes, key)
    THEN [root EXCEPT ![field] = DictGet(attributes, key)]
    ELSE root

DeclarationInto(b, attributes) ==
    [b EXCEPT !.xml_root =
        SetIfPresent(
            SetIfPresent(
                SetIfPresent(@, attributes, KeyVersion, "version"),
                attributes, KeyEncoding, "encoding"),
            attributes, KeyStandalone, "standalone")]

\* XmlParser._process_xmldeclaration
process_xmldeclaration(b, token) == DeclarationInto(b, get_attributes_of(token))

\* the second half of _process_startnode: the new node becomes the root
\* node or the last child of the innermost open node, and is pushed
AddNode(b, made, node) ==
    IF Len(b.parent_nodes) = 0
    THEN [b EXCEPT !.heap = made,
                   !.current_node = node,
                   !.xml_root = [@ EXCEPT !.rootnode = node],
                   !.parent_nodes = Append(@, node)]
    ELSE [b EXCEPT !.heap = [made EXCEPT ![Top(b.parent_nodes)].nodes =
                                              Append(@, node)],
                   !.current_node = node,
                   !.parent_nodes = Append(@, node)]

StartNode(b, tags, attributes) ==
    IF tags = <<>> THEN Raise(b, "NoTagName")
    ELSE AddNode(b, Append(b.heap, [NewNode(tags[1]) EXCEPT
                                       !.attributes = attributes]),
                 Len(b.heap) + 1)

\* XmlParser._process_startnode
process_startnode(b, token) ==
    StartNode(b, findall(token, tag_regex), get_attributes_of(token))

\* "self.parent_nodes.pop()", then current_node from the new top
Pop(b, popped) ==
    [b EXCEPT !.parent_nodes = popped,
              !.current_node = IF popped # <<>> THEN Top(popped) ELSE None]

\* an end tag that pops whatever is open, without comparing the names
EndNode_NoTagCheck(b, tags) ==
    IF tags = <<>> THEN Raise(b, "NoTagName")
    ELSE IF b.current_node = None THEN Raise(b, "NoOpenNode")
    ELSE Pop(b, SubSeq(b.parent_nodes, 1, Len(b.parent_nodes) - 1))

EndNode(b, tags) ==
    IF tags = <<>> THEN Raise(b, "NoTagName")
    ELSE IF b.current_node = None THEN Raise(b, "NoOpenNode")
    ELSE IF b.heap[b.current_node].tag # tags[1] THEN Raise(b, "TagMismatch")
    ELSE Pop(b, SubSeq(b.parent_nodes, 1, Len(b.parent_nodes) - 1))

\* XmlParser._process_endnode
process_endnode(b, token) == EndNode(b, findall(token, tag_regex))

EndAfterStart(started, token) ==
    IF started.err.kind # "" THEN started ELSE process_endnode(started, token)

\* a "/>" branch that forgets the end: the node stays open
process_selfclosing_StartOnly(b, token) == process_startnode(b, token)

\* The "/>" branch of parse_xml: start, then end, with the same token.
process_selfclosing(b, token) == EndAfterStart(process_startnode(b, token), token)

\* The character-data branch of parse_xml; the value setter decodes.
process_text(b, token) ==
    IF b.current_node # None /\ token # <<>> /\ ~IsSpace(token)
    THEN [b EXCEPT !.heap[b.current_node].value = decode_string(token)]
    ELSE b

\* One pass of the loop body of parse_xml, without the final append: the
\* if / elif chain, in its order.
Dispatch(b, token) ==
    IF ~StartsWith(token, <<"<">>) THEN process_text(b, token)
    ELSE IF StartsWith(token, <<"<","!","-","-">>) THEN b
    ELSE IF StartsWith(token, <<"<","!","[","C","D","A","T","A">>) THEN b
    ELSE IF StartsWith(token, <<"<","!","E","L","E","M","E","N","T">>) THEN b
    ELSE IF StartsWith(token, <<"<","!","A","T","T","L","I","S","T">>) THEN b
    ELSE IF StartsWith(token, <<"<","!","E","N","T","I","T","Y">>) THEN b
    ELSE IF StartsWith(token, <<"<","!","D","O","C","T","Y","P","E">>) THEN b
    ELSE IF StartsWith(token, <<"<","!">>) THEN b
    ELSE IF StartsWith(token, <<"<","?","x","m","l">>)
         THEN process_xmldeclaration(b, token)
    ELSE IF StartsWith(token, <<"<","?">>) THEN b       \* printed only
    ELSE IF StartsWith(token, <<"<","/">>) THEN process_endnode(b, token)
    ELSE IF EndsWith(token, <<"/",">">>) THEN process_selfclosing(b, token)
    ELSE IF EndsWith(token, <<">">>) THEN process_startnode(b, token)
    ELSE b                                              \* printed only

\* The loop body of parse_xml: an exception leaves the loop, otherwise the
\* token joins tokens_processed.
Consumed(after, token) ==
    IF after.err.kind # "" THEN after
    ELSE [after EXCEPT !.tokens_processed = Append(@, token)]

ProcessToken(b, token) == Consumed(Dispatch(b, token), token)

(***************************************************************************)
(* XmlNode.is_empty / nodes_are_empty and the serializer.  h is the heap.  *)
(***************************************************************************)
Truthy(str) == str # NoneStr /\ str # <<>>

RECURSIVE is_empty(_, _)
RECURSIVE nodes_are_empty(_, _)

\* XmlNode.nodes_are_empty
nodes_are_empty(h, n) == \A k \in 1..Len(h[n].nodes) : is_empty(h, h[n].nodes[k])

\* XmlNode.is_empty
is_empty(h, n) ==
    IF Truthy(h[n].value) \/ Len(h[n].attributes) > 0 THEN FALSE
    ELSE IF Len(h[n].nodes) = 0 THEN TRUE
    ELSE nodes_are_empty(h, n)

\* XmlSerializer._attributes_to_xml, for a dict of strings
RECURSIVE attributes_to_xml(_)
attributes_to_xml(attributes) ==
    IF attributes = <<>> THEN <<>>
    ELSE Head(attributes).key \o <<"=", "\"">>
         \o Replace(Head(attributes).value, <<"\"">>, <<"&","q","u","o","t",";">>)
         \o <<"\"", " ">>
         \o attributes_to_xml(Tail(attributes))

Tabs(n) == [k \in 1..n |-> "\t"]

RECURSIVE to_xml(_, _, _)
RECURSIVE ChildrenXml(_, _, _, _)

\* children rendered at their parent's depth
ChildrenXml_SameDepth(h, kids, k, intendation) ==
    IF k > Len(kids) THEN <<>>
    ELSE <<"\n">> \o to_xml(h, kids[k], intendation)
         \o ChildrenXml(h, kids, k + 1, intendation)

\* the "for newNode in node.nodes" loop of _to_xml
ChildrenXml(h, kids, k, intendation) ==
    IF k > Len(kids) THEN <<>>
    ELSE <<"\n">> \o to_xml(h, kids[k], intendation + 1)
         \o ChildrenXml(h, kids, k + 1, intendation)

\* "<tag" with the attributes, if any, after the indentation
OpenTag(node, intendation) ==
    IF Len(node.attributes) > 0
    THEN Tabs(intendation) \o <<"<">> \o node.tag \o <<" ">>
         \o attributes_to_xml(node.attributes)
    ELSE Tabs(intendation) \o <<"<">> \o node.tag

\* XmlSerializer._to_xml
to_xml(h, n, intendation) ==
    IF is_empty(h, n) THEN <<>>
    ELSE IF (Len(h[n].nodes) = 0 \/ nodes_are_empty(h, n)) /\ ~Truthy(h[n].value)
    THEN OpenTag(h[n], intendation) \o <<"/", ">">>
    ELSE OpenTag(h[n], intendation) \o <<">">>
         \o (IF Len(h[n].nodes) > 0
             THEN ChildrenXml(h, h[n].nodes, 1, intendation)
                  \o <<"\n">> \o Tabs(intendation)
             ELSE IF Truthy(h[n].value) THEN encode_string(h[n].value)
             ELSE <<>>)
         \o <<"<", "/">> \o h[n].tag \o <<">">>

\* "if self.xml_root.<field>: attributes[key] = self.xml_root.<field>"
FieldIfSet(key, value) ==
    IF Truthy(value) THEN <<[key |-> key, value |-> value]>> ELSE <<>>

DeclarationLine(attributes) ==
    IF Len(attributes) > 0
    THEN <<"<","?","x","m","l"," ">> \o attributes_to_xml(attributes)
         \o <<" ","?",">","\n">>
    ELSE <<>>

\* the declaration line of serialize_xml ("" when no field is set)
DeclarationXml(root) ==
    DeclarationLine(FieldIfSet(KeyVersion, root.version)
                    \o FieldIfSet(KeyEncoding, root.encoding)
                    \o FieldIfSet(KeyStandalone, root.standalone))

\* XmlSerializer.serialize_xml, for a document that has a root node
serialize_xml(h, root) == DeclarationXml(root) \o to_xml(h, root.rootnode, 0)

(***************************************************************************)
(* The XmlNode query and mutation API.  A tag argument is either one tag   *)
(* (a string) or a path (a Python list of tags): [list |-> FALSE, v |-> t] *)
(* or [list |-> TRUE, v |-> <<t1, ..., tn>>].  A list is an object the     *)
(* caller shares with the callee, so a lookup returns, with its result,    *)
(* what the list holds afterwards.  strict is RAISE_NONE_ERROR.            *)
(***************************************************************************)
AsciiUpper ==
    <<"A", "B", "C", "D", "E", "F", "G", "H", "I", "J", "K", "L", "M",
      "N", "O", "P", "Q", "R", "S", "T", "U", "V", "W", "X", "Y", "Z">>
AsciiLower ==
    <<"a", "b", "c", "d", "e", "f", "g", "h", "i", "j", "k", "l", "m",
      "n", "o", "p", "q", "r", "s", "t", "u", "v", "w", "x", "y", "z">>

\* str.lower(), on ASCII text
LowerChar(c) ==
    IF \E k \in 1..26 : AsciiUpper[k] = c
    THEN AsciiLower[CHOOSE k \in 1..26 : AsciiUpper[k] = c]
    ELSE c

lower(str) == [k \in 1..Len(str) |-> LowerChar(str[k])]

OneTag(t) == [list |-> FALSE, v |-> t]
PathOf(ts) == [list |-> TRUE, v |-> ts]

\* RAISE_NONE_ERROR as the module sets it
RAISE_NONE_ERROR == FALSE

\* get_all_nodes comparing the tags as written
get_all_nodes_CaseSensitive(h, self, t) ==
    SelectSeq(h[self].nodes, LAMBDA n : h[n].tag = t)

\* XmlNode.get_all_nodes, for a string tag
get_all_nodes(h, self, t) ==
    SelectSeq(h[self].nodes, LAMBDA n : lower(h[n].tag) = lower(t))

\* what a call returns or raises, and the caller's tag argument afterwards
Returned(node, arg) == [node |-> node, raised |-> "", arg |-> arg]
RaisedIn(kind, arg) == [node |-> None, raised |-> kind, arg |-> arg]

\* the last branch of get_first_node: the first of get_all_nodes(tag), or
\* None.  A list reaches it only when empty, and then tag.lower() raises
\* AttributeError as soon as there is a child to compare with.
FirstOfAll(h, self, arg) ==
    IF arg.list
    THEN IF Len(h[self].nodes) > 0 THEN RaisedIn("AttributeError", arg)
         ELSE Returned(None, arg)
    ELSE IF Len(get_all_nodes(h, self, arg.v)) > 0
         THEN Returned(Head(get_all_nodes(h, self, arg.v)), arg)
         ELSE Returned(None, arg)

RECURSIVE get_first_node(_, _, _, _)

\* the "len(tag) > 1" branch after "tmp_tag = tag.pop(0)": rest is the
\* list as the pop left it, sub the result of get_first_node(tmp_tag)
AfterPop(h, sub, rest, raise_none) ==
    IF sub.node = None /\ raise_none THEN RaisedIn("XmlException", rest)
    ELSE IF sub.node = None THEN Returned(None, rest)
    ELSE get_first_node(h, sub.node, rest, raise_none)

\* XmlNode.get_first_node
get_first_node(h, self, arg, raise_none) ==
    IF arg.list /\ Len(arg.v) > 1
    THEN AfterPop(h, FirstOfAll(h, self, OneTag(Head(arg.v))),
                  PathOf(Tail(arg.v)), raise_none)
    ELSE IF arg.list /\ Len(arg.v) = 1
    THEN Returned(FirstOfAll(h, self, OneTag(arg.v[1])).node, arg)
    ELSE FirstOfAll(h, self, arg)

\* list.index(node): 0-based position of the first element that is node
IndexOf(nodes, node) == (CHOOSE k \in 1..Len(nodes) :
                            nodes[k] = node /\ \A j \in 1..(k - 1) : nodes[j] # node) - 1

NoIndex == -1     \* get_index returning None

\* XmlNode.get_index
get_index(h, self, arg) ==
    IF arg.list THEN NoIndex
    ELSE IF FirstOfAll(h, self, arg).node = None THEN NoIndex
    ELSE IndexOf(h[self].nodes, FirstOfAll(h, self, arg).node)

\* an insertion that puts x last, whatever the index
ListInsert_AtEnd(l, i, x) == Append(l, x)

\* list.insert(i, x)
ListInsert(l, i, x) ==
    IF i >= Len(l) THEN Append(l, x)
    ELSE SubSeq(l, 1, i) \o <<x>> \o SubSeq(l, i + 1, Len(l))

\* the end of _insert_helper, from "if not parentnode": found is what
\* resolving the parent returned, index_tag the anchor's tag
InsertAt(h, found, index_tag, node, add) ==
    IF found.raised # "" \/ found.node = None
       \/ get_index(h, found.node, OneTag(index_tag)) = NoIndex
    THEN [heap |-> h, raised |-> found.raised, arg |-> found.arg]
    ELSE [heap |-> [h EXCEPT ![found.node].nodes =
                       ListInsert(@, get_index(h, found.node, OneTag(index_tag)) + add,
                                  node)],
          raised |-> "", arg |-> found.arg]

\* XmlNode._insert_helper
insert_helper(h, self, arg, node, add, raise_none) ==
    IF arg.list /\ Len(arg.v) > 1
    THEN InsertAt(h, get_first_node(h, self, PathOf(AllButLast(arg.v)), raise_none),
                  arg.v[Len(arg.v)], node, add)
    ELSE IF arg.list /\ Len(arg.v) = 1
    THEN InsertAt(h, Returned(self, arg), arg.v[1], node, add)
    ELSE IF arg.list
    THEN [heap |-> h, raised |-> "", arg |-> arg]
    ELSE InsertAt(h, Returned(self, arg), arg.v, node, add)


(***************************************************************************)
(* The parse pipeline as steps: XmlParser.__init__ (lex, assert), the loop *)
(* of parse_xml (one token per step), its return, and XmlRoot.to_xml.      *)
(***************************************************************************)
Builder == [heap |-> heap, xml_root |-> xml_root, current_node |-> current_node,
            parent_nodes |-> parent_nodes, tokens_processed |-> tokens_processed,
            err |-> err]

\* self.tokens = self._findall(self.xml_string, self.full_regex)
Lex ==
    /\ pc = "start"
    /\ tokens' = findall(xml_string, full_regex)
    /\ pc' = "lexed"
    /\ UNCHANGED <<xml_string, idx, tokens_processed, heap, xml_root,
                   current_node, parent_nodes, err, xml_out>>
    /\ UNCHANGED <<escVars, apiVars>>

\* self._assert_lex(), then the rest of __init__
AssertLex ==
    /\ pc = "lexed"
    /\ IF Join(tokens) = xml_string
       THEN /\ pc' = "parse"
            /\ err' = err
       ELSE /\ pc' = "raised"
            /\ err' = [kind |-> "AssertionError", column |-> 0, line |-> 0]
    /\ idx' = 1
    /\ current_node' = None
    /\ parent_nodes' = <<>>
    /\ UNCHANGED <<xml_string, tokens, tokens_processed, heap, xml_root, xml_out>>
    /\ UNCHANGED <<escVars, apiVars>>

\* the parser's state after a loop iteration that ended in state b
Becomes(b) ==
    /\ heap' = b.heap
    /\ xml_root' = b.xml_root
    /\ current_node' = b.current_node
    /\ parent_nodes' = b.parent_nodes
    /\ tokens_processed' = b.tokens_processed
    /\ err' = b.err
    /\ pc' = IF b.err.kind # "" THEN "raised" ELSE "parse"
    /\ idx' = IF b.err.kind # "" THEN idx ELSE idx + 1

\* one iteration of "for token in self.tokens"
ParseToken ==
    /\ pc = "parse"
    /\ idx <= Len(tokens)
    /\ Becomes(ProcessToken(Builder, tokens[idx]))
    /\ UNCHANGED <<xml_string, tokens, xml_out>>
    /\ UNCHANGED <<escVars, apiVars>>

\* "return self.xml_root"
ParseReturn ==
    /\ pc = "parse"
    /\ idx > Len(tokens)
    /\ pc' = "parsed"
    /\ UNCHANGED <<xml_string, tokens, idx, tokens_processed, heap, xml_root,
                   current_node, parent_nodes, err, xml_out>>
    /\ UNCHANGED <<escVars, apiVars>>

\* XmlRoot.to_xml(); without a root node _to_xml(None) raises AttributeError
Serialize ==
    /\ pc = "parsed"
    /\ IF xml_root.rootnode = None
       THEN /\ pc' = "raised"
            /\ err' = [kind |-> "AttributeError", column |-> 0, line |-> 0]
            /\ xml_out' = DeclarationXml(xml_root)
       ELSE /\ pc' = "serialized"
            /\ err' = err
            /\ xml_out' = serialize_xml(heap, xml_root)
    /\ UNCHANGED <<xml_string, tokens, idx, tokens_processed, heap, xml_root,
                   current_node, parent_nodes>>
    /\ UNCHANGED <<escVars, apiVars>>

ParseNext == Lex \/ AssertLex \/ ParseToken \/ ParseReturn \/ Serialize

\* the variables a specification does not use
EscIdle == esc_pc = "idle" /\ esc_in = <<>> /\ esc_enc = <<>> /\ esc_dec = <<>>
ApiIdle == /\ op = "idle" /\ strict = FALSE /\ tag = <<>> /\ tag0 = <<>>
           /\ newnode = None /\ result = None /\ raised = ""
ParseIdle == /\ pc = "idle" /\ xml_string = <<>> /\ tokens = <<>> /\ idx = 0
             /\ tokens_processed = <<>> /\ xml_root = XmlRoot(NoneStr)
             /\ current_node = None /\ parent_nodes = <<>> /\ err = NoError
             /\ xml_out = <<>>

\* XmlParser(xmlstring, XmlRoot(version)) before __init__ has run
ParseStart(inputs, versions) ==
    /\ pc = "start"
    /\ xml_string \in inputs
    /\ \E v \in versions : xml_root = XmlRoot(v)
    /\ tokens = <<>> /\ idx = 0 /\ tokens_processed = <<>> /\ heap = <<>>
    /\ current_node = None /\ parent_nodes = <<>> /\ err = NoError
    /\ xml_out = <<>>

(***************************************************************************)
(* The lexer on every text over a small alphabet.                          *)
(***************************************************************************)
MaxLexLen == 3
LexAlphabet == {"<", ">", "/", "!", "?", "\"", "'", " ", "a", "-", "="}

LexInit == /\ ParseStart(StringsUpTo(LexAlphabet, MaxLexLen), {NoneStr})
           /\ EscIdle /\ ApiIdle
SpecLex == LexInit /\ [][ParseNext]_vars


(***************************************************************************)
(* C3.  Lexer losslessness, on every text of up to MaxLexLen characters    *)
(* over LexAlphabet (SpecLex).                                             *)
(***************************************************************************)
InitialDocument == XmlRoot(NoneStr)

\* C3: once the lexer has run, the tokens are non-empty pieces whose
\* concatenation, in order, is the input exactly; the builder has touched
\* the tree or consumed a token only for such a token sequence, and a
\* failed check leaves the document as it was.
C3_LexerLossless ==
    /\ pc # "start" =>
          /\ Join(tokens) = xml_string
          /\ \A k \in 1..Len(tokens) : tokens[k] # <<>>
    /\ (heap # <<>> \/ tokens_processed # <<>> \/ pc \in {"parse", "parsed", "serialized"})
          => Join(tokens) = xml_string
    /\ (pc = "raised" /\ err.kind = "AssertionError")
          => heap = <<>> /\ tokens_processed = <<>> /\ xml_root = InitialDocument

\* a text and a markup token were lexed and the builder has consumed both
C3_Witness ==
    /\ pc = "parsed"
    /\ Len(tokens) >= 2
    /\ tokens_processed = tokens
    /\ \E k \in 1..Len(tokens) : Head(tokens[k]) = "<" /\ Len(tokens[k]) >= 2
    /\ \E k \in 1..Len(tokens) : Head(tokens[k]) # "<"

(***************************************************************************)
(* The escaping round trip (SpecEsc): encode, then decode, every string of *)
(* up to MaxEscLen reserved characters.                                    *)
(***************************************************************************)
Encode ==
    /\ esc_pc = "start"
    /\ esc_enc' = encode_string(esc_in)
    /\ esc_pc' = "encoded"
    /\ UNCHANGED <<esc_in, esc_dec, parseVars, heap, apiVars>>

Decode ==
    /\ esc_pc = "encoded"
    /\ esc_dec' = decode_string(esc_enc)
    /\ esc_pc' = "decoded"
    /\ UNCHANGED <<esc_in, esc_enc, parseVars, heap, apiVars>>

EscInit ==
    /\ esc_pc = "start"
    /\ esc_in \in StringsUpTo(ReservedChars, MaxEscLen)
    /\ esc_enc = <<>> /\ esc_dec = <<>>
    /\ ParseIdle /\ heap = <<>> /\ ApiIdle

EscNext == Encode \/ Decode
SpecEsc == EscInit /\ [][EscNext]_vars

\* C1: decoding the encoding of a string of reserved characters gives the
\* string back: decode(encode(s)) = s.
C1_EscapeRoundTrip == esc_pc = "decoded" => esc_dec = esc_in

(***************************************************************************)
(* The builder on documents made of up to MaxPieces pieces (SpecBuild),    *)
(* parsed into a document constructed with any version argument.           *)
(***************************************************************************)
MaxPieces == 3

OpenA == <<"<","a",">">>    \* <a>
OpenB == <<"<","b",">">>    \* <b>
CloseA == <<"<","/","a",">">>    \* </a>
CloseB == <<"<","/","b",">">>    \* </b>
SelfA == <<"<","a","/",">">>    \* <a/>
SelfB == <<"<","b"," ","k","=","\"","v","\"","/",">">>    \* <b k="v"/>
TextX == <<"x">>    \* x
NewLine == <<"\n">>    \* \n
\* <?xml version=""?>
DeclEmpty ==
    <<"<","?","x","m","l"," ","v","e","r",
      "s","i","o","n","=","\"","\"","?",">">>
\* <?xml version="1.1"?>
Decl11 ==
    <<"<","?","x","m","l"," ","v","e","r","s",
      "i","o","n","=","\"","1",".","1","\"","?",">">>
CloseNoName == <<"<","/",">">>    \* </>

Pieces ==
    {OpenA, OpenB, CloseA, CloseB, SelfA, SelfB, TextX, NewLine,
     DeclEmpty, Decl11, CloseNoName}

RECURSIVE DocsOf(_)
DocsOf(n) ==
    IF n = 0 THEN {<<>>}
    ELSE DocsOf(n - 1) \cup {d \o q : d \in DocsOf(n - 1), q \in Pieces}

VersionArgs == {NoneStr, <<>>, <<"1", ".", "1">>}

BuildInit == ParseStart(DocsOf(MaxPieces), VersionArgs) /\ EscIdle /\ ApiIdle
SpecBuild == BuildInit /\ [][ParseNext]_vars


\* the tokens parse_xml hands to _process_endnode alone, and to
\* _process_startnode followed by _process_endnode
IsEndTag(token) == StartsWith(token, <<"<", "/">>)

IsSelfClosing(token) ==
    /\ StartsWith(token, <<"<">>)
    /\ ~StartsWith(token, <<"<", "!">>)
    /\ ~StartsWith(token, <<"<", "?">>)
    /\ ~StartsWith(token, <<"<", "/">>)
    /\ EndsWith(token, <<"/", ">">>)

AtToken == pc = "parse" /\ idx <= Len(tokens)

\* C4: an end tag met while no node is open, or whose name is not the tag
\* of the innermost open node, fails the parse and leaves the stack as it
\* is; an end tag whose name is that tag pops exactly one node, and the
\* current node becomes the new top, or None when the stack is empty.
C4_MismatchedCloseFails ==
    [][(AtToken /\ IsEndTag(tokens[idx])) =>
          IF /\ parent_nodes # <<>>
             /\ findall(tokens[idx], tag_regex) # <<>>
             /\ heap[Top(parent_nodes)].tag = Head(findall(tokens[idx], tag_regex))
          THEN /\ pc' = "parse"
               /\ err' = NoError
               /\ parent_nodes' = AllButLast(parent_nodes)
               /\ current_node' = IF parent_nodes' = <<>> THEN None
                                  ELSE Top(parent_nodes')
          ELSE /\ pc' = "raised"
               /\ err'.kind \in {"NoOpenNode", "TagMismatch", "NoTagName"}
               /\ parent_nodes' = parent_nodes
               /\ current_node' = current_node
               /\ heap' = heap]_vars

\* <a><b></a>: the parse has failed at </a> with a and b still open
C4_Witness ==
    /\ xml_string = OpenA \o OpenB \o CloseA
    /\ pc = "raised"
    /\ err.kind = "TagMismatch"
    /\ Len(parent_nodes) = 2
    /\ idx = 3

\* '<t attrs/>' as the start tag '<t attrs>' and as the end tag '</t>'
StartTagOf(token) == SubSeq(token, 1, Len(token) - 2) \o <<">">>
EndTagOf(token) == <<"<", "/">> \o Head(findall(token, tag_regex)) \o <<">">>

StartThenEnd(b, token) ==
    process_endnode(process_startnode(b, StartTagOf(token)), EndTagOf(token))

InStack(n, stack) == \E k \in 1..Len(stack) : stack[k] = n

\* C7: a self-closing token leaves the tree, the stack and the current node
\* as its start tag followed by its end tag would: one new node with the
\* token's tag, no value and no children, the stack as before; and no token
\* changes the children of a node that is not open.
C7_SelfClosingEquivalence ==
    [][/\ (AtToken /\ IsSelfClosing(tokens[idx])) =>
             /\ pc' = "parse"
             /\ heap' = StartThenEnd(Builder, tokens[idx]).heap
             /\ xml_root' = StartThenEnd(Builder, tokens[idx]).xml_root
             /\ parent_nodes' = StartThenEnd(Builder, tokens[idx]).parent_nodes
             /\ current_node' = StartThenEnd(Builder, tokens[idx]).current_node
             /\ parent_nodes' = parent_nodes
             /\ Len(heap') = Len(heap) + 1
             /\ heap'[Len(heap')].tag = Head(findall(tokens[idx], tag_regex))
             /\ heap'[Len(heap')].value = NoneStr
             /\ heap'[Len(heap')].nodes = <<>>
       /\ AtToken =>
             \A n \in 1..Len(heap) :
                 ~InStack(n, parent_nodes) => heap'[n].nodes = heap[n].nodes]_vars

\* a self-closing token with attributes was just consumed inside an open
\* node, and a later token has been consumed after it
C7_Witness ==
    /\ pc = "parse"
    /\ Len(tokens_processed) >= 3
    /\ tokens_processed[2] = SelfB
    /\ Len(heap) >= 2
    /\ heap[1].nodes = <<2>>
    /\ heap[2].attributes # <<>>
    /\ parent_nodes = <<1>>

\* C8: the document's version is never empty.
C8_VersionNonEmpty == xml_root.version # <<>> /\ xml_root.version # NoneStr


(***************************************************************************)
(* The round trip (SpecRound): documents <r A><c B>V</c></r>, the child    *)
(* nested up to MaxDepth deep, parsed into a new document and serialized.  *)
(***************************************************************************)
MaxDepth == 2

\*  a="1"
AttrA1 ==
    <<" ","a","=","\"","1","\"">>
\*  a="1" b="2"
AttrA1B2 ==
    <<" ","a","=","\"","1","\""," ","b","=","\"","2","\"">>
\*  k="v"
AttrKV ==
    <<" ","k","=","\"","v","\"">>
\* text &amp; more
TextAmpMore ==
    <<"t","e","x","t"," ","&","a","m","p",";"," ","m","o","r","e">>
\* a &lt; b
TextLtB ==
    <<"a"," ","&","l","t",";"," ","b">>
\* <?xml version="1.0" encoding="utf-8"  ?>\n
DefaultDeclaration ==
    <<"<","?","x","m","l"," ","v","e","r","s","i","o","n","=","\"","1",
      ".","0","\""," ","e","n","c","o","d","i","n","g","=","\"","u","t",
      "f","-","8","\""," "," ","?",">","\n">>
\* <r a="1"><c>text &amp; more</c></r>
ExampleDocument ==
    <<"<","r"," ","a","=","\"","1","\"",">","<","c",">","t","e","x","t",
      " ","&","a","m","p",";"," ","m","o","r","e","<","/","c",">","<",
      "/","r",">">>
\* <r a="1">\n\t<c>text &amp; more</c>\n</r>
ExampleAsClaimed ==
    <<"<","r"," ","a","=","\"","1","\"",">","\n","\t","<","c",">","t",
      "e","x","t"," ","&","a","m","p",";"," ","m","o","r","e","<","/",
      "c",">","\n","<","/","r",">">>
\* <r a="1" >\n\t<c>text &amp; more</c>\n</r>
ExampleAsSerialized ==
    <<"<","r"," ","a","=","\"","1","\""," ",">","\n","\t","<","c",">",
      "t","e","x","t"," ","&","a","m","p",";"," ","m","o","r","e","<",
      "/","c",">","\n","<","/","r",">">>

RootAttrs == {<<>>, AttrA1, AttrA1B2}
ChildAttrs == {<<>>, AttrKV}
Values == {TextAmpMore, TextX, TextLtB}

RECURSIVE Nested(_, _, _)
Nested(ca, v, d) ==
    IF d <= 1 THEN <<"<", "c">> \o ca \o <<">">> \o v \o <<"<", "/", "c", ">">>
    ELSE <<"<", "c", ">">> \o Nested(ca, v, d - 1) \o <<"<", "/", "c", ">">>

Document(ra, ca, v, d) ==
    <<"<", "r">> \o ra \o <<">">> \o Nested(ca, v, d) \o <<"<", "/", "r", ">">>

RoundDocs ==
    {Document(ra, ca, v, d) : ra \in RootAttrs, ca \in ChildAttrs,
                              v \in Values, d \in 1..MaxDepth}

RoundInit == ParseStart(RoundDocs, {NoneStr}) /\ EscIdle /\ ApiIdle
SpecRound == RoundInit /\ [][ParseNext]_vars

\* The element text expected for Document(ra, ca, v, d), written from the
\* document's parts: gap is what stands between the last attribute's
\* closing quote and the > of the opening tag.
AttrsOut(a, gap) == IF a = <<>> THEN <<>> ELSE a \o gap

RECURSIVE NestedOut(_, _, _, _, _)
NestedOut(ca, v, d, level, gap) ==
    IF d <= 1
    THEN Tabs(level) \o <<"<", "c">> \o AttrsOut(ca, gap) \o <<">">>
         \o encode_string(decode_string(v)) \o <<"<", "/", "c", ">">>
    ELSE Tabs(level) \o <<"<", "c", ">", "\n">>
         \o NestedOut(ca, v, d - 1, level + 1, gap)
         \o <<"\n">> \o Tabs(level) \o <<"<", "/", "c", ">">>

DocumentOut(ra, ca, v, d, gap) ==
    <<"<", "r">> \o AttrsOut(ra, gap) \o <<">", "\n">>
    \o NestedOut(ca, v, d, 1, gap) \o <<"\n", "<", "/", "r", ">">>

\* what parsing ExampleDocument yields: root r with a="1" and the one
\* child c with value "text & more"
ExampleParsed ==
    /\ xml_root.rootnode # None
    /\ heap[xml_root.rootnode].tag = <<"r">>
    /\ heap[xml_root.rootnode].attributes = <<[key |-> <<"a">>, value |-> <<"1">>]>>
    /\ Len(heap[xml_root.rootnode].nodes) = 1
    /\ heap[heap[xml_root.rootnode].nodes[1]].tag = <<"c">>
    /\ heap[heap[xml_root.rootnode].nodes[1]].value =
          <<"t","e","x","t"," ","&"," ","m","o","r","e">>
    /\ heap[heap[xml_root.rootnode].nodes[1]].nodes = <<>>

RoundTrip(gap, example) ==
    /\ (xml_string = ExampleDocument /\ pc \in {"parsed", "serialized"})
          => ExampleParsed
    /\ (xml_string = ExampleDocument /\ pc = "serialized")
          => xml_out = DefaultDeclaration \o example
    /\ pc = "serialized" =>
          \A ra \in RootAttrs, ca \in ChildAttrs, v \in Values, d \in 1..MaxDepth :
              xml_string = Document(ra, ca, v, d)
                  => xml_out = DefaultDeclaration \o DocumentOut(ra, ca, v, d, gap)

MaxNodes == 3
MaxPathLen == 3

TagRoot == <<"r">>
TagNew == <<"n">>
TagZ == <<"z", "z", "z">>
ValueX == <<"x">>
UpperA == <<"A">>
TreeTags == {<<"a">>, <<"b">>, <<"c">>}
PathTags == {<<"a">>, <<"b">>, <<"c">>, TagZ}

\* a is j or an ancestor of j, under the parent vector p
RECURSIVE OnPath(_, _, _)
OnPath(p, j, a) == a = j \/ (j > 1 /\ p[j] < j /\ OnPath(p, p[j], a))

\* node i hangs under the node before it or under one of that node's
\* ancestors: the numbering is the document order
ParentVectors(n) ==
    {p \in [2..(n + 1) -> 1..n] :
        \A i \in 2..(n + 1) : p[i] < i /\ (i > 2 => OnPath(p, i - 1, p[i]))}

ChildrenOf(p, i, n) == SelectSeq([k \in 1..n |-> k + 1], LAMBDA c : p[c] = i)

TreeNode(t, children) ==
    [NewNode(t) EXCEPT !.nodes = children,
                       !.value = IF lower(t) = <<"c">> THEN ValueX ELSE @]

TreeHeap(p, tags, n) ==
    [i \in 1..(n + 2) |->
        IF i = 1 THEN TreeNode(TagRoot, ChildrenOf(p, 1, n))
        ELSE IF i = n + 2 THEN NewNode(TagNew)
        ELSE TreeNode(tags[i], ChildrenOf(p, i, n))]

Trees == UNION {{TreeHeap(p, tags, n) : p \in ParentVectors(n),
                                        tags \in [2..(n + 1) -> TreeTags]} :
                n \in 0..MaxNodes}

TagArgs == {OneTag(t) : t \in PathTags \cup {UpperA}}
           \cup {PathOf(ts) : ts \in StringsUpTo(PathTags, MaxPathLen)}
           \cup {PathOf(<<UpperA>>), PathOf(<<UpperA, <<"b">>>>)}

Self == 1

\* an XmlRoot whose rootnode is the tree, and a caller about to call
TreeStart(stricts, args) ==
    /\ heap \in Trees
    /\ pc = "idle" /\ xml_string = <<>> /\ tokens = <<>> /\ idx = 0
    /\ tokens_processed = <<>> /\ current_node = None /\ parent_nodes = <<>>
    /\ err = NoError /\ xml_out = <<>>
    /\ xml_root = [XmlRoot(NoneStr) EXCEPT !.rootnode = Self]
    /\ op = "idle" /\ strict \in stricts
    /\ tag0 \in args /\ tag = tag0
    /\ newnode = Len(heap) /\ result = None /\ raised = ""

\* a call has returned or raised: r is what it produced
Called(name, r, h) ==
    /\ op' = name
    /\ result' = r.node
    /\ raised' = r.raised
    /\ tag' = r.arg
    /\ heap' = h
    /\ UNCHANGED <<strict, tag0, newnode>>
    /\ UNCHANGED <<escVars, parseVars>>

\* node.get_first_node(tag)
GetFirstNode ==
    /\ op = "idle"
    /\ Called("get_first_node", get_first_node(heap, Self, tag, strict), heap)

InsertCalled(name, r) ==
    Called(name, [node |-> None, raised |-> r.raised, arg |-> r.arg], r.heap)

\* node.insert_before(tag, newnode)
InsertBefore ==
    /\ op = "idle"
    /\ InsertCalled("insert_before", insert_helper(heap, Self, tag, newnode, 0, strict))

\* node.insert_after(tag, newnode)
InsertAfter ==
    /\ op = "idle"
    /\ InsertCalled("insert_after", insert_helper(heap, Self, tag, newnode, 1, strict))

\* XmlRoot.to_xml()
ToXml ==
    /\ op = "idle"
    /\ op' = "to_xml"
    /\ xml_out' = serialize_xml(heap, xml_root)
    /\ UNCHANGED <<pc, xml_string, tokens, idx, tokens_processed, heap, xml_root,
                   current_node, parent_nodes, err>>
    /\ UNCHANGED <<strict, tag, tag0, newnode, result, raised>>
    /\ UNCHANGED escVars

\* lookups with RAISE_NONE_ERROR as the module sets it
LookupInit == TreeStart({RAISE_NONE_ERROR}, TagArgs) /\ EscIdle
SpecLookup == LookupInit /\ [][GetFirstNode]_vars

\* the same lookups with RAISE_NONE_ERROR set either way
StrictInit == TreeStart(BOOLEAN, TagArgs) /\ EscIdle
SpecStrict == StrictInit /\ [][GetFirstNode]_vars

\* insertions
InsertInit == TreeStart({RAISE_NONE_ERROR}, TagArgs) /\ EscIdle
InsertNext == InsertBefore \/ InsertAfter
SpecInsert == InsertInit /\ [][InsertNext]_vars

\* serialization of the document; no tag argument is involved
ElideInit == TreeStart({RAISE_NONE_ERROR}, {PathOf(<<>>)}) /\ EscIdle
SpecElide == ElideInit /\ [][ToXml]_vars

(***************************************************************************)
(* What a lookup is to find, written from the tree alone: no list is       *)
(* consumed and no method of the node is used.                             *)
(***************************************************************************)
SameLetter(c, d) ==
    c = d \/ \E k \in 1..26 : {c, d} = {AsciiUpper[k], AsciiLower[k]}

SameTag(s, t) == Len(s) = Len(t) /\ \A k \in 1..Len(s) : SameLetter(s[k], t[k])

MatchingAt(h, n, t) == {k \in 1..Len(h[n].nodes) : SameTag(h[h[n].nodes[k]].tag, t)}

\* position among n's children of the first one tagged t, 0 when none is
FirstMatchAt(h, n, t) ==
    IF MatchingAt(h, n, t) = {} THEN 0
    ELSE CHOOSE k \in MatchingAt(h, n, t) : \A j \in MatchingAt(h, n, t) : k <= j

FirstMatch(h, n, t) ==
    IF FirstMatchAt(h, n, t) = 0 THEN None ELSE h[n].nodes[FirstMatchAt(h, n, t)]

RECURSIVE Resolve(_, _, _)
Resolve(h, n, path) ==
    IF path = <<>> THEN n
    ELSE IF FirstMatch(h, n, Head(path)) = None THEN None
    ELSE Resolve(h, FirstMatch(h, n, Head(path)), Tail(path))

\* the segments of a tag argument
Segments(arg) == IF arg.list THEN arg.v ELSE <<arg.v>>

\* the tree a > b > c under the node, c with the value "x"
ChainABC == TreeHeap([i \in 2..4 |-> i - 1],
                     [i \in 2..4 |-> <<<<"a">>, <<"b">>, <<"c">>>>[i - 1]], 3)
PathABC == PathOf(<<<<"a">>, <<"b">>, <<"c">>>>)
PathAZ == PathOf(<<<<"a">>, TagZ>>)

\* C6: in non-strict mode get_first_node with a non-empty path returns the
\* node reached by taking, level by level, the first child whose tag equals
\* the segment case-insensitively, and None as soon as a level has no such
\* child (later siblings of an earlier match are not tried); it raises
\* nothing.  On the tree a > b > c, [a, b, c] gives the node whose value is
\* "x" and [a, zzz] gives None.
C6_PathLookup ==
    (op = "get_first_node" /\ ~strict /\ tag0.list /\ Len(tag0.v) > 0) =>
        /\ raised = ""
        /\ result = Resolve(heap, Self, tag0.v)
        /\ (heap = ChainABC /\ tag0 = PathABC) =>
               (result # None /\ heap[result].value = ValueX)
        /\ (heap = ChainABC /\ tag0 = PathAZ) => result = None

\* the example lookup has resolved to the node with value "x"
C6_Witness ==
    /\ op = "get_first_node" /\ ~strict
    /\ heap = ChainABC /\ tag0 = PathABC
    /\ result = 4 /\ heap[result].value = ValueX

\* what an insertion with the argument arg is to do to the tree h, h2 being
\* the tree afterwards: k is the anchor's position in its parent nodes list
InsertedAt(h, h2, parent, k, node) ==
    /\ DOMAIN h2 = DOMAIN h
    /\ Len(h2[parent].nodes) = Len(h[parent].nodes) + 1
    /\ h2[parent].nodes[k] = node
    /\ SubSeq(h2[parent].nodes, 1, k - 1) \o SubSeq(h2[parent].nodes, k + 1,
                                                   Len(h2[parent].nodes))
         = h[parent].nodes
    /\ h2[parent] = [h[parent] EXCEPT !.nodes = h2[parent].nodes]
    /\ \A n \in DOMAIN h : n # parent => h2[n] = h[n]

InsertFrame(h, h2, parent, index_tag, node, add) ==
    IF parent # None /\ FirstMatchAt(h, parent, index_tag) # 0
    THEN InsertedAt(h, h2, parent, FirstMatchAt(h, parent, index_tag) + add, node)
    ELSE h2 = h

InsertEffect(h, h2, path, node, add) ==
    IF path = <<>> THEN h2 = h
    ELSE InsertFrame(h, h2, Resolve(h, Self, AllButLast(path)), path[Len(path)],
                     node, add)

\* C9: insert_before / insert_after in non-strict mode.  When the parent
\* (all segments but the last, the node itself for one tag or one segment)
\* and the anchor (first child of the parent matching the last segment)
\* resolve, the parent's children afterwards are the old children with the
\* new node at the anchor's index (before) or the next index (after): one
\* more child, old children in their order, nothing else in the tree
\* changed.  Otherwise, and for an empty path, the tree is unchanged.  No
\* error is raised either way.
C9_InsertFrame ==
    [][(op = "idle" /\ ~strict /\ op' \in {"insert_before", "insert_after"}) =>
          /\ raised' = ""
          /\ InsertEffect(heap, heap', Segments(tag), newnode,
                          IF op' = "insert_before" THEN 0 ELSE 1)]_vars

\* the new node has been put before the second child of a nested parent
C9_Witness ==
    /\ op = "insert_before" /\ tag0.list /\ Len(tag0.v) = 2
    /\ \E n \in 2..Len(heap) : /\ Len(heap[n].nodes) = 3
                               /\ heap[n].nodes[2] = newnode

\* the tree without its empty nodes
Pruned(h) ==
    [n \in DOMAIN h |->
        [h[n] EXCEPT !.nodes = SelectSeq(@, LAMBDA c : ~is_empty(h, c))]]

\* C5: serializing a tree gives the text that serializing the tree without
\* its empty nodes gives: an empty node contributes no character.
C5_Elision ==
    op = "to_xml" => xml_out = serialize_xml(Pruned(heap), xml_root)

\* C10: with strict mode on, get_first_node with one tag or a non-empty path
\* raises whenever a segment has no matching child and never returns None;
\* with strict mode off the same misses return None and raise nothing.
C10_StrictRaises ==
    (/\ op = "get_first_node"
     /\ Segments(tag0) # <<>>
     /\ Resolve(heap, Self, Segments(tag0)) = None) =>
        IF strict THEN raised = "XmlException"
        ELSE raised = "" /\ result = None

(***************************************************************************)
(* C11.  The position an error reports (SpecBuild).                        *)
(***************************************************************************)
\* the errors of _get_tag and _process_endnode
PositionErrors == {"NoTagName", "NoOpenNode", "TagMismatch"}

\* the lines of the tokens consumed before the fault
ConsumedLines == splitlines(Join(tokens_processed))

\* C11: when the parse fails with a tag-not-found or mismatched-close error,
\* the line reported is the number of lines of the tokens consumed before the
\* fault and the column reported is the length of the last of those lines;
\* both are 0 when nothing was consumed.
C11_ErrorPosition ==
    (pc = "raised" /\ err.kind \in PositionErrors) =>
        IF ConsumedLines = <<>> THEN err.line = 0 /\ err.column = 0
        ELSE /\ err.line = Len(ConsumedLines)
             /\ err.column = Len(ConsumedLines[Len(ConsumedLines)])

(***************************************************************************)
(* C12.  The caller's path after a lookup (SpecLookup).                    *)
(***************************************************************************)
\* what a second get_first_node with the caller's list, as the first call
\* left it, returns
SecondLookup == get_first_node(heap, Self, tag, strict)

\* C12: a lookup leaves the caller's path as it was passed, whether it
\* resolves or misses, and a second call with the same path on the unchanged
\* tree gives the same node.
C12_PathUnchanged ==
    op = "get_first_node" =>
        /\ tag = tag0
        /\ raised = "" => (SecondLookup.raised = "" /\ SecondLookup.node = result)

==============================================================================
